---- MODULE Spec2Model ----
(***************************************************************************)
(* A model of src/blockchain.py: the Block record and its compute_hash,    *)
(* and the Blockchain with its genesis block, proof_of_work, add_block and *)
(* is_valid.                                                               *)
(*                                                                         *)
(* SHA-256 is modelled by a narrow digest: the serialised block is folded  *)
(* into a number modulo HexBase^HashLen, written as HashLen hexadecimal    *)
(* digits (a digit is a number 0..15, a hex string is a sequence of        *)
(* digits).  The narrow digest has collisions, so a claim that rests on    *)
(* collision resistance states it as a hypothesis over the blocks in play. *)
(* difficulty, a class attribute in the source, is a value fixed at        *)
(* start-up and drawn from 0..MaxDifficulty; time.time() yields any of     *)
(* 0..MaxTime; proof_of_work's nonce is followed up to MaxNonce.           *)
(***************************************************************************)
EXTENDS Integers, Sequences, FiniteSets, TLC

\* ------------------------------------------------------------- bounds
HashLen == 2
MaxDifficulty == 3
MaxNonce == 12
MaxTime == 0
MaxBlocks == 3
MaxExternal == 1

\* ------------------------------------------------- program constants
HexBase == 16

Callers == {1, 2}

\* Payload values are numbers: a party or a text is written as its code
\* (Alice 1, Bob 2, Charlie 3, the text "Genesis block" 0).  A payload is
\* a Python dict: a sequence of <<key, value>> pairs in insertion order.
GenesisData == << <<"message", 0>> >>

PayloadAB == << <<"from", 1>>, <<"to", 2>>, <<"amount", 10>> >>

PayloadABReordered == << <<"amount", 10>>, <<"to", 2>>, <<"from", 1>> >>

PayloadABTampered == << <<"from", 1>>, <<"to", 2>>, <<"amount", 999>> >>

PayloadBC == << <<"from", 2>>, <<"to", 3>>, <<"amount", 5>> >>

\* The payloads add_block is called with, and those an external edit writes.
Payloads == {PayloadAB, PayloadBC}

EditPayloads == {PayloadAB, PayloadABReordered, PayloadABTampered, PayloadBC}

\* A payload a forger writes before sealing the block anew.
PayloadABForged == << <<"from", 1>>, <<"to", 2>>, <<"amount", 20>> >>

ResealPayloads == EditPayloads \cup {PayloadABForged}

\* The payload keys in ascending lexicographic order.
KeyOrder == <<"amount", "from", "message", "to">>

\* The genesis block's previous_hash: the one-character string "0".
Sentinel == <<0>>

\* ------------------------------------------------------------ hashing

\* A dict as a mapping: the set of its items (dict equality ignores order).
Items(d) == {d[i] : i \in DOMAIN d}

RECURSIVE SortedFrom(_, _)
SortedFrom(d, r) ==
    IF r > Len(KeyOrder) THEN <<>>
    ELSE SelectSeq(d, LAMBDA kv : kv[1] = KeyOrder[r]) \o SortedFrom(d, r + 1)

\* json.dumps(..., sort_keys=True) on the payload: its items by ascending key.
SortKeys(d) == SortedFrom(d, 1)

KeyCode(k) == 100 + (CHOOSE r \in 1..Len(KeyOrder) : KeyOrder[r] = k)

RECURSIVE DumpItems(_)
DumpItems(d) ==
    IF d = <<>> THEN <<>>
    ELSE <<KeyCode(d[1][1]), d[1][2]>> \o DumpItems(Tail(d))

\* The string json.dumps(block_dict, sort_keys=True) as a sequence of
\* tokens: the five keys in sorted order (data, index, nonce,
\* previous_hash, timestamp), each followed by its value.
Serialize(index, timestamp, data, previous_hash, nonce) ==
    <<201>> \o DumpItems(SortKeys(data)) \o <<202, index, 203, nonce, 204>>
        \o previous_hash \o <<205, timestamp>>

Modulus == HexBase ^ HashLen

\* One round of the digest on state h and token x; the state's part is
\* tabulated over the states.
Round == [h \in 0..(Modulus - 1) |-> h * 125 + (h \div HexBase) + 11]

Mix(h, x) == (Round[h] + x * 31) % Modulus

RECURSIVE Digest(_, _)
Digest(h, s) == IF s = <<>> THEN h ELSE Digest(Mix(h, Head(s)), Tail(s))

\* hexdigest(): n as HashLen hexadecimal digits, most significant first.
HexDigits(n) == [k \in 1..HashLen |-> (n \div (HexBase ^ (HashLen - k))) % HexBase]

\* The hexadecimal form of every digest value.
HexOf == [n \in 0..(Modulus - 1) |-> HexDigits(n)]

Sha256Hex(s) == HexOf[Digest(0, s)]

\* Mutant of compute_hash: the stored hash is hashed with the five fields
\* (all of self.__dict__ is serialised).
compute_hash_WithStoredHash(b) ==
    Sha256Hex(Serialize(b.index, b.timestamp, b.data, b.previous_hash, b.nonce)
                \o <<206>> \o b.hash)

\* Block.compute_hash: over the five fields, never the stored hash.
compute_hash(b) ==
    Sha256Hex(Serialize(b.index, b.timestamp, b.data, b.previous_hash, b.nonce))

\* Block.__init__ at time ts.
NewBlockRaw(index, data, previous_hash, ts) ==
    [index |-> index, timestamp |-> ts, data |-> data,
     previous_hash |-> previous_hash, nonce |-> 0, hash |-> <<>>]

Block(index, data, previous_hash, ts) ==
    [NewBlockRaw(index, data, previous_hash, ts) EXCEPT
        !.hash = compute_hash(NewBlockRaw(index, data, previous_hash, ts))]

\* "0" * difficulty
Prefix(d) == [k \in 1..d |-> 0]

\* str.startswith
StartsWith(s, p) == Len(p) <= Len(s) /\ SubSeq(s, 1, Len(p)) = p

\* ------------------------------------------------------------ state
VARIABLES
    difficulty,  \* Blockchain.difficulty
    mutex,       \* whether the callers of add_block exclude one another
    chain,       \* Blockchain.chain
    pc,          \* each caller's position in add_block
    arg,         \* add_block's data argument
    n_read,      \* len(self.chain) as add_block read it
    cand,        \* add_block's new_block: <<>> or <<block>>
    ret,         \* the block the caller's last add_block returned
    pre,         \* the chain as it was when the caller's add_block began
    seen,        \* the chain as it was when the caller read last_block
    genesis0,    \* the genesis block as the constructor created it
    err,         \* the exception the caller's last add_block raised
    verdict,     \* what the last is_valid() returned: <<>> before any call
    ext,         \* the last external edit of the chain
    n_ext        \* the number of external edits so far

\* What no step of the program changes: the class attribute, the callers'
\* discipline and the record of the construction.
fixed == <<difficulty, mutex, genesis0>>

vars == <<fixed, chain, pc, arg, n_read, cand, ret, pre, seen, err,
          verdict, ext, n_ext>>

NoExt == [op |-> "none", i |-> 0, j |-> 0, before |-> <<>>]

\* Mutants of list.append: an insert at the front, an overwrite of the tail.
Appended_AtFront(ch, b) == <<b>> \o ch

Appended_OverTail(ch, b) == IF ch = <<>> THEN <<b>> ELSE [ch EXCEPT ![Len(ch)] = b]

\* list.append
Appended(ch, b) == Append(ch, b)

\* Blockchain.create_genesis_block at time ts, on the chain ch.
create_genesis_block(ch, ts) == Appended(ch, Block(0, GenesisData, Sentinel, ts))

\* Mutant of last_block: the first block instead of the last.
last_block_First(ch) == ch[1]

\* Blockchain.last_block: self.chain[-1]
last_block(ch) == ch[Len(ch)]

\* Mutant of the failing read: self.chain[-2], which fails on one block too.
last_block_raises_OffByOne(ch) == IF Len(ch) <= 1 THEN "IndexError" ELSE "none"

\* The exception self.chain[-1] raises on the chain ch: the list's own
\* IndexError when ch is empty, none otherwise.
last_block_raises(ch) == IF ch = <<>> THEN "IndexError" ELSE "none"

\* Mutant of the construction: the index is one too large.
CandidateFor_OffByOne(ch, n, data, ts) == Block(n + 1, data, last_block(ch).hash, ts)

\* add_block's new_block as constructed at time ts, n being len(self.chain).
CandidateFor(ch, n, data, ts) == Block(n, data, last_block(ch).hash, ts)

\* Block b after block.nonce = n; block.hash = block.compute_hash()
WithNonce(b, n) ==
    [b EXCEPT !.nonce = n, !.hash = compute_hash([b EXCEPT !.nonce = n])]

\* Mutant of the loop body: block.nonce += 2
NextNonce_StepTwo(b) == WithNonce(b, b.nonce + 2)

\* The body of proof_of_work's loop.
NextNonce(b) == WithNonce(b, b.nonce + 1)

\* Mutant of the loop condition: one zero too few is asked for.
PowDone_ShortPrefix(b, d) == StartsWith(b.hash, Prefix(d - 1))

\* proof_of_work's loop ends: block.hash.startswith("0" * difficulty)
PowDone(b, d) == StartsWith(b.hash, Prefix(d))

InitWith(m) ==
    /\ difficulty \in 0..MaxDifficulty
    /\ mutex \in m
    /\ \E ts \in 0..MaxTime : chain = create_genesis_block(<<>>, ts)
    /\ genesis0 = chain[1]
    /\ pc = [c \in Callers |-> "idle"]
    /\ arg = [c \in Callers |-> <<>>]
    /\ n_read = [c \in Callers |-> 0]
    /\ cand = [c \in Callers |-> <<>>]
    /\ ret = [c \in Callers |-> <<>>]
    /\ pre = [c \in Callers |-> <<>>]
    /\ seen = [c \in Callers |-> <<>>]
    /\ err = [c \in Callers |-> "none"]
    /\ verdict = <<>>
    /\ ext = NoExt
    /\ n_ext = 0

Init == InitWith({TRUE})

\* ------------------------------------------------------------ is_valid

\* Mutants of is_valid's checks: the check is left out.
HashMatches_Skipped(current) == TRUE

LinkMatches_Skipped(current, previous) == TRUE

\* is_valid's first check on block `current`.
HashMatches(current) == current.hash = compute_hash(current)

\* is_valid's second check.
LinkMatches(current, previous) == current.previous_hash = previous.hash

RECURSIVE IsValidFrom(_, _, _)
IsValidFrom(ch, d, i) ==
    IF i > Len(ch) THEN TRUE
    ELSE IF ~HashMatches(ch[i]) THEN FALSE
    ELSE IF ~LinkMatches(ch[i], ch[i - 1]) THEN FALSE
    ELSE IF ~StartsWith(ch[i].hash, Prefix(d)) THEN FALSE
    ELSE IsValidFrom(ch, d, i + 1)

\* Mutants of is_valid's loop: range(2, len(self.chain)), and
\* range(len(self.chain), 1), which is empty.
is_valid_SkipsFirst(ch, d) == IsValidFrom(ch, d, 3)

is_valid_EmptyRange(ch, d) == IsValidFrom(ch, d, Len(ch) + 1)

\* Mutant of is_valid's loop: range(len(self.chain)), which checks the first
\* block too, against self.chain[-1], the last block.
is_valid_FromGenesis(ch, d) ==
    IF ch = <<>> THEN TRUE
    ELSE /\ HashMatches(ch[1])
         /\ LinkMatches(ch[1], ch[Len(ch)])
         /\ StartsWith(ch[1].hash, Prefix(d))
         /\ IsValidFrom(ch, d, 2)

\* Blockchain.is_valid.  Python's range(1, len(self.chain)) is the
\* positions 2..Len(ch) of the sequence here, which counts from 1.
is_valid(ch, d) == IsValidFrom(ch, d, 2)

\* Mutant of is_valid: the first check assigns instead of comparing
\* (current.hash = current.compute_hash()), from the first block on.
IsValidCall_Repairing ==
    /\ verdict' = <<is_valid(chain, difficulty)>>
    /\ chain' = [k \in 1..Len(chain) |->
                   [chain[k] EXCEPT !.hash = compute_hash(chain[k])]]
    /\ UNCHANGED <<fixed, pc, arg, n_read, cand, ret, pre, seen, err, ext, n_ext>>

IsValidCall ==
    /\ verdict' = <<is_valid(chain, difficulty)>>
    /\ UNCHANGED <<fixed, chain, pc, arg, n_read, cand, ret, pre, seen, err,
                   ext, n_ext>>

\* ------------------------------------------------------------ add_block

\* add_block is entered and len(self.chain) is read.
AddBlockCall(c, data) ==
    /\ pc[c] = "idle"
    /\ mutex => \A o \in Callers : pc[o] = "idle"
    /\ Len(chain) < MaxBlocks
    /\ pc' = [pc EXCEPT ![c] = "tail"]
    /\ arg' = [arg EXCEPT ![c] = data]
    /\ n_read' = [n_read EXCEPT ![c] = Len(chain)]
    /\ pre' = [pre EXCEPT ![c] = chain]
    /\ cand' = [cand EXCEPT ![c] = <<>>]
    /\ ret' = [ret EXCEPT ![c] = <<>>]
    /\ seen' = [seen EXCEPT ![c] = <<>>]
    /\ err' = [err EXCEPT ![c] = "none"]
    /\ UNCHANGED <<fixed, chain, verdict, ext, n_ext>>

\* self.last_block.hash is read and Block(...) is constructed; on an empty
\* chain self.chain[-1] raises IndexError, which leaves add_block.
Construct(c, ts) ==
    /\ pc[c] = "tail"
    /\ IF last_block_raises(chain) # "none"
       THEN /\ err' = [err EXCEPT ![c] = last_block_raises(chain)]
            /\ pc' = [pc EXCEPT ![c] = "idle"]
            /\ UNCHANGED cand
       ELSE /\ cand' = [cand EXCEPT ![c] =
                          <<CandidateFor(chain, n_read[c], arg[c], ts)>>]
            /\ pc' = [pc EXCEPT ![c] = "mine"]
            /\ UNCHANGED err
    /\ seen' = [seen EXCEPT ![c] = chain]
    /\ UNCHANGED <<fixed, chain, arg, n_read, ret, pre, verdict, ext, n_ext>>

\* One test of proof_of_work's loop condition, and the loop body or the exit.
MineStep(c) ==
    /\ pc[c] = "mine"
    /\ IF PowDone(cand[c][1], difficulty)
       THEN /\ pc' = [pc EXCEPT ![c] = "append"]
            /\ UNCHANGED cand
       ELSE /\ cand[c][1].nonce < MaxNonce
            /\ cand' = [cand EXCEPT ![c] = <<NextNonce(cand[c][1])>>]
            /\ UNCHANGED pc
    /\ UNCHANGED <<fixed, chain, arg, n_read, ret, pre, seen, err, verdict,
                   ext, n_ext>>

\* self.chain.append(new_block); return new_block
AppendBlock(c) ==
    /\ pc[c] = "append"
    /\ chain' = Appended(chain, cand[c][1])
    /\ ret' = [ret EXCEPT ![c] = cand[c]]
    /\ pc' = [pc EXCEPT ![c] = "idle"]
    /\ n_read' = [n_read EXCEPT ![c] = 0]
    /\ cand' = [cand EXCEPT ![c] = <<>>]
    /\ verdict' = <<>>
    /\ ext' = NoExt
    /\ UNCHANGED <<fixed, arg, pre, seen, err, n_ext>>

Next ==
    \/ \E c \in Callers, data \in Payloads : AddBlockCall(c, data)
    \/ \E c \in Callers, ts \in 0..MaxTime : Construct(c, ts)
    \/ \E c \in Callers : MineStep(c)
    \/ \E c \in Callers : AppendBlock(c)
    \/ IsValidCall

Spec == Init /\ [][Next]_vars

\* A call of add_block that has begun runs on: Python executes the
\* statements of add_block and the passes of proof_of_work's loop one after
\* another with no suspension.  Whether add_block or is_valid is called at
\* all is up to the driver.
Running(c) ==
    /\ WF_vars(\E ts \in 0..MaxTime : Construct(c, ts))
    /\ WF_vars(MineStep(c))
    /\ WF_vars(AppendBlock(c))

SpecLive == Spec /\ \A c \in Callers : Running(c)

\* ------------------------------------------------------ external edits
\* The driver holds chain.blocks and may edit it between calls, as the demo
\* does with blockchain.chain[1].data["amount"] = 999.

AllIdle == \A c \in Callers : pc[c] = "idle"

MayEdit == AllIdle /\ n_ext < MaxExternal

\* An edit writes the chain ch.  The blocks earlier calls returned are the
\* chain's own objects, so the records of those calls end here.
Edited(op, i, j, ch) ==
    /\ chain' = ch
    /\ ext' = [op |-> op, i |-> i, j |-> j, before |-> chain]
    /\ n_ext' = n_ext + 1
    /\ verdict' = <<>>
    /\ arg' = [c \in Callers |-> <<>>]
    /\ ret' = [c \in Callers |-> <<>>]
    /\ pre' = [c \in Callers |-> <<>>]
    /\ seen' = [c \in Callers |-> <<>>]
    /\ err' = [c \in Callers |-> "none"]
    /\ UNCHANGED <<fixed, pc, n_read, cand>>

StoredHashes(ch) == {ch[k].hash : k \in 1..Len(ch)}

\* chain[p].data = data
EditData(p, data) ==
    /\ MayEdit
    /\ p \in 1..Len(chain)
    /\ Edited("data", p, 0, [chain EXCEPT ![p].data = data])

\* The values an edit writes to a field of block b.
FieldValues(f, b, ch) ==
    CASE f = "index" -> 0..MaxBlocks
      [] f = "timestamp" -> 0..MaxTime
      [] f = "nonce" -> {0, b.nonce + 1, MaxNonce}
      [] f = "previous_hash" -> StoredHashes(ch) \cup {Sentinel}
      [] f = "hash" -> StoredHashes(ch) \cup {Sentinel, compute_hash(b)}

\* setattr(chain[p], f, v)
EditField(p, f, v) ==
    /\ MayEdit
    /\ p \in 1..Len(chain)
    /\ Edited("field", p, 0, [chain EXCEPT ![p][f] = v])

\* chain[p].previous_hash, chain[p+1].previous_hash are swapped: two adjacent
\* non-genesis blocks.
SwapPreviousHash(p) ==
    /\ MayEdit
    /\ p >= 2 /\ p + 1 <= Len(chain)
    /\ Edited("swap_prev", p, p + 1,
              [chain EXCEPT ![p].previous_hash = chain[p + 1].previous_hash,
                            ![p + 1].previous_hash = chain[p].previous_hash])

\* chain[p], chain[q] = chain[q], chain[p]
SwapBlocks(p, q) ==
    /\ MayEdit
    /\ 1 <= p /\ p < q /\ q <= Len(chain)
    /\ Edited("reorder", p, q, [chain EXCEPT ![p] = chain[q], ![q] = chain[p]])

\* del chain[p]
DeleteBlock(p) ==
    /\ MayEdit
    /\ p \in 1..Len(chain)
    /\ Edited("delete", p, 0, SubSeq(chain, 1, p - 1) \o SubSeq(chain, p + 1, Len(chain)))

RECURSIVE PowFrom(_, _, _)
PowFrom(b, d, n) ==
    IF PowDone(WithNonce(b, n), d) \/ n >= MaxNonce THEN WithNonce(b, n)
    ELSE PowFrom(b, d, n + 1)

\* proof_of_work run to its end on block b (to MaxNonce at most): the stored
\* hash is tested first, then the hash of each next nonce.
proof_of_work(b, d) ==
    IF PowDone(b, d) \/ b.nonce >= MaxNonce THEN b
    ELSE PowFrom(b, d, b.nonce + 1)

\* The blocks an edit inserts at position p: a copy of a stored block, a
\* block constructed on a stored hash (or on "0") and mined, and such a
\* block with its hash field overwritten.
ForgedBlocks(p, ch, d) ==
    LET mined == {proof_of_work(Block(p - 1, data, prev, 0), d) :
                    data \in Payloads, prev \in StoredHashes(ch) \cup {Sentinel}}
    IN  {ch[k] : k \in 1..Len(ch)} \cup mined
          \cup {[x EXCEPT !.hash = h] : x \in mined, h \in StoredHashes(ch) \cup {Sentinel}}

\* chain.insert(p, x)
InsertBlock(p, x) ==
    /\ MayEdit
    /\ p \in 1..(Len(chain) + 1)
    /\ Edited("insert", p, 0, SubSeq(chain, 1, p - 1) \o <<x>> \o SubSeq(chain, p, Len(chain)))

\* Block b with the payload data, sealed anew: nonce = 0, hash =
\* compute_hash(), then proof_of_work (run on the stale hash alone the loop
\* would end at once, the stale hash having the prefix).
Resealed(b, data, d) == proof_of_work(WithNonce([b EXCEPT !.data = data], 0), d)

\* chain[p].data = data and chain[p] sealed anew, no other block touched.
Reseal(p, data) ==
    /\ MayEdit
    /\ p \in 1..Len(chain)
    /\ PowDone(Resealed(chain[p], data, difficulty), difficulty)
    /\ Edited("reseal", p, 0, [chain EXCEPT ![p] = Resealed(chain[p], data, difficulty)])

FieldNames == {"index", "timestamp", "nonce", "previous_hash", "hash"}

NextTamper ==
    \/ Next
    \/ MayEdit /\ \E p \in DOMAIN chain, data \in EditPayloads : EditData(p, data)
    \/ MayEdit /\ \E p \in DOMAIN chain, f \in FieldNames :
                    \E v \in FieldValues(f, chain[p], chain) : EditField(p, f, v)
    \/ MayEdit /\ \E p \in DOMAIN chain : SwapPreviousHash(p)
    \/ MayEdit /\ \E p, q \in DOMAIN chain : SwapBlocks(p, q)
    \/ MayEdit /\ \E p \in DOMAIN chain : DeleteBlock(p)
    \/ MayEdit /\ \E p \in 1..(Len(chain) + 1) :
                    \E x \in ForgedBlocks(p, chain, difficulty) : InsertBlock(p, x)
    \/ MayEdit /\ \E p \in DOMAIN chain, data \in ResealPayloads : Reseal(p, data)

SpecTamper == Init /\ [][NextTamper]_vars

\* The callers of add_block may or may not exclude one another.
InitRace == InitWith(BOOLEAN)

SpecRace == InitRace /\ [][Next]_vars

\* ------------------------------------------------------------ claims

\* C1: every chain that the constructor and add_block calls alone have built
\* passes is_valid(), the fresh chain of the genesis block alone included,
\* and every is_valid() call made on such a chain returned True.
C1_BuiltChainIsValid ==
    /\ is_valid(chain, difficulty)
    /\ verdict # <<>> => verdict[1] = TRUE

C1_Witness ==
    /\ Len(chain) = 3
    /\ difficulty >= 1
    /\ chain[3].nonce > 0
    /\ verdict = <<TRUE>>

\* C3: the block add_block returns has a hash that starts with `difficulty`
\* zeros and is the compute_hash() of the block with its final nonce, and so
\* every non-genesis block of a chain built by add_block has the prefix.
C3_ReturnedBlockSealed ==
    /\ \A c \in Callers : ret[c] # <<>> =>
          /\ StartsWith(ret[c][1].hash, Prefix(difficulty))
          /\ ret[c][1].hash = compute_hash(ret[c][1])
    /\ \A i \in 2..Len(chain) : StartsWith(chain[i].hash, Prefix(difficulty))

C3_Witness ==
    \E c \in Callers :
        /\ ret[c] # <<>>
        /\ ret[c][1].nonce > 0
        /\ difficulty = 2
        /\ chain[Len(chain)] = ret[c][1]

\* C4: the block b that add_block(data) returns on a chain of length n with
\* last block t has previous_hash t.hash, index n and data `data`, and is
\* the block at position n of the chain.
C4_ReturnedBlockLinked ==
    \A c \in Callers : ret[c] # <<>> =>
        /\ pre[c] # <<>>
        /\ ret[c][1].previous_hash = pre[c][Len(pre[c])].hash
        /\ ret[c][1].index = Len(pre[c])
        /\ ret[c][1].data = arg[c]
        /\ Len(chain) > Len(pre[c])
        /\ chain[Len(pre[c]) + 1] = ret[c][1]

C4_Witness ==
    \E c \in Callers :
        /\ ret[c] # <<>>
        /\ Len(pre[c]) = 2
        /\ ret[c][1].index = 2
        /\ ret[c][1].previous_hash = chain[2].hash
        /\ chain[3] = ret[c][1]

\* C6: the chain is never empty and its first block is the genesis block of
\* the construction: index 0, previous_hash "0", the genesis payload and
\* the hash it had then; no add_block replaces or alters it.
C6_GenesisStays ==
    /\ Len(chain) >= 1
    /\ chain[1] = genesis0
    /\ chain[1].index = 0
    /\ chain[1].previous_hash = Sentinel
    /\ chain[1].data = GenesisData
    /\ chain[1].nonce = 0
    /\ chain[1].hash = compute_hash(genesis0)

C6_Witness ==
    /\ Len(chain) = 3
    /\ chain[1] = genesis0
    /\ \E c \in Callers : ret[c] # <<>> /\ ret[c][1] = chain[3]

\* C8: every step that changes the chain is the append of a completed
\* add_block: the chain grows by exactly one block, the new block is the
\* mined candidate and is last, and every block stored before keeps its place
\* and all its fields; a mining step changes the candidate and nothing of
\* the chain.
C8_AppendOnly ==
    [][/\ chain' # chain =>
            /\ Len(chain') = Len(chain) + 1
            /\ SubSeq(chain', 1, Len(chain)) = chain
            /\ \E c \in Callers :
                  /\ pc[c] = "append"
                  /\ pc'[c] = "idle"
                  /\ chain'[Len(chain')] = cand[c][1]
                  /\ ret'[c] = cand[c]
       /\ \A c \in Callers :
            (pc[c] = "append" /\ pc'[c] = "idle") => Len(chain') = Len(chain) + 1
       /\ \A c \in Callers : pc[c] = "mine" => chain' = chain]_vars

C8_Witness ==
    \E c \in Callers :
        /\ ret[c] # <<>>
        /\ ret[c][1].nonce > 1
        /\ Len(chain) = 3
        /\ SubSeq(chain, 1, 2) = pre[c]

\* Two blocks of the chain reference the same previous_hash and carry the
\* same index.
DupLink(ch) ==
    \E i, j \in 1..Len(ch) :
        /\ i < j
        /\ ch[i].previous_hash = ch[j].previous_hash
        /\ ch[i].index = ch[j].index

\* Both callers have completed an add_block, and each read the chain's
\* length and its last block before either appended (the chain only grows,
\* so two completed calls that began on the same chain overlapped).
BothReadBeforeAppend ==
    /\ \A c \in Callers : ret[c] # <<>> /\ seen[c] = pre[c]
    /\ \A c, o \in Callers : pre[c] = pre[o]

\* C9: two add_block calls that both read the length and the last block's
\* hash before either appends leave two blocks with the same previous_hash
\* and the same index in the chain; when the calls exclude one another no
\* such state is reached.
C9_RaceDuplicatesLink ==
    /\ BothReadBeforeAppend => DupLink(chain)
    /\ mutex => ~DupLink(chain)

C9_Witness ==
    /\ ~mutex
    /\ BothReadBeforeAppend
    /\ Len(chain) = 3
    /\ chain[2].previous_hash = chain[3].previous_hash
    /\ chain[2].index = chain[3].index
    /\ chain[2] # chain[3]

\* ---------------------------------------------- claims on edited chains

\* The five fields compute_hash reads, the payload as a mapping.
Fields(b) == <<b.index, b.timestamp, Items(b.data), b.previous_hash, b.nonce>>

\* Collision resistance for two blocks: different fields, different hashes.
NoCollision(a, b) == compute_hash(a) = compute_hash(b) => Fields(a) = Fields(b)

ValidBefore == is_valid(ext.before, difficulty)

VerdictIs(v) == verdict # <<>> => verdict[1] = v

\* C2: on a chain of at least 2 blocks that is_valid() accepts, writing a
\* different payload to one non-genesis block, its hash left as stored,
\* makes is_valid() return False, when the changed block's fields do not
\* hash to what the original block's fields hashed to.
C2_TamperDetected ==
    (/\ ext.op = "data"
     /\ ext.i >= 2
     /\ Len(ext.before) >= 2
     /\ ValidBefore
     /\ Items(chain[ext.i].data) # Items(ext.before[ext.i].data)
     /\ NoCollision(chain[ext.i], ext.before[ext.i]))
    => ~is_valid(chain, difficulty) /\ VerdictIs(FALSE)

C2_Witness ==
    /\ ext.op = "data"
    /\ ext.i = 2
    /\ Len(chain) = 3
    /\ ValidBefore
    /\ ext.before[2].data = PayloadAB
    /\ chain[2].data = PayloadABTampered
    /\ chain[2].hash = ext.before[2].hash
    /\ NoCollision(chain[2], ext.before[2])
    /\ verdict = <<FALSE>>

\* C5: on a valid chain with at least two non-genesis blocks, swapping the
\* previous_hash values of two adjacent non-genesis blocks, their hash
\* fields left as stored, makes is_valid() return False (the two values
\* are the hashes of two different blocks, taken to differ).
C5_SwapDetected ==
    (/\ ext.op = "swap_prev"
     /\ ValidBefore
     /\ ext.before[ext.i].previous_hash # ext.before[ext.j].previous_hash)
    => ~is_valid(chain, difficulty) /\ VerdictIs(FALSE)

C5_Witness ==
    /\ ext.op = "swap_prev"
    /\ ext.i = 2 /\ ext.j = 3
    /\ ValidBefore
    /\ chain[2].previous_hash = ext.before[3].previous_hash
    /\ chain[3].previous_hash = ext.before[2].previous_hash
    /\ chain[2].previous_hash # chain[3].previous_hash
    /\ chain[2].hash = ext.before[2].hash /\ chain[3].hash = ext.before[3].hash
    /\ verdict = <<FALSE>>

\* The three checks of is_valid on the block at position i, stated at once.
ChecksPass(ch, d, i) ==
    /\ ch[i].hash = compute_hash(ch[i])
    /\ ch[i].previous_hash = ch[i - 1].hash
    /\ StartsWith(ch[i].hash, Prefix(d))

\* C7: in every state of the chain, edited or not, is_valid() is True
\* exactly when every block after the first passes all three checks, and a
\* call yields True or False, never anything else.
C7_ValidIffAllChecks ==
    /\ is_valid(chain, difficulty) = (\A i \in 2..Len(chain) : ChecksPass(chain, difficulty, i))
    /\ verdict \in {<<>>, <<TRUE>>, <<FALSE>>}
    /\ VerdictIs(\A i \in 2..Len(chain) : ChecksPass(chain, difficulty, i))

C7_Witness ==
    /\ ext.op = "field"
    /\ Len(chain) = 3
    /\ ~ChecksPass(chain, difficulty, 2)
    /\ ChecksPass(chain, difficulty, 3)
    /\ verdict = <<FALSE>>

\* The stored hashes of chain B differ pairwise and from the first block's
\* previous_hash, and the first block's hash is the hash of its fields.
CleanChain(B) ==
    /\ \A i, j \in 1..Len(B) : i # j => B[i].hash # B[j].hash
    /\ \A i \in 1..Len(B) : B[1].previous_hash # B[i].hash
    /\ B # <<>> => HashMatches(B[1])

\* C10 as stated: from a valid chain, reordering two blocks, deleting a block
\* or inserting a block makes is_valid() return False.
C10_AnyEditDetected ==
    (ext.op \in {"reorder", "delete", "insert"} /\ ValidBefore)
    => ~is_valid(chain, difficulty)

\* C10, amended: from a valid chain whose blocks have pairwise different
\* hashes, is_valid() returns False after reordering two blocks, after
\* deleting a block that is neither the first nor the last, and after
\* inserting a block between two stored blocks (the inserted block not
\* colliding with a stored one); it returns True after deleting the first
\* or the last block.
C10_InteriorEditDetected ==
    LET B == ext.before
        n == Len(ext.before)
        p == ext.i
    IN  ValidBefore =>
          /\ (ext.op = "reorder" /\ CleanChain(B)) =>
                ~is_valid(chain, difficulty) /\ VerdictIs(FALSE)
          /\ (ext.op = "delete" /\ 1 < p /\ p < n /\ CleanChain(B)) =>
                ~is_valid(chain, difficulty) /\ VerdictIs(FALSE)
          /\ (/\ ext.op = "insert" /\ 1 < p /\ p <= n /\ CleanChain(B)
               /\ \A k \in 1..n : NoCollision(chain[p], B[k])) =>
                ~is_valid(chain, difficulty) /\ VerdictIs(FALSE)
          /\ (ext.op = "delete" /\ (p = 1 \/ p = n)) =>
                is_valid(chain, difficulty) /\ VerdictIs(TRUE)

C10_Witness ==
    /\ ext.op = "insert"
    /\ ext.i = 2
    /\ Len(ext.before) = 2
    /\ difficulty = 1
    /\ ValidBefore
    /\ CleanChain(ext.before)
    /\ \A k \in 1..2 : NoCollision(chain[2], ext.before[k])
    /\ ChecksPass(chain, difficulty, 2)
    /\ chain[2].nonce > 0
    /\ verdict = <<FALSE>>

\* ------------------------------------------------ claims on the empty chain

\* A caller's add_block began on a chain of zero blocks and has ended.
ReadEmptyTail(c) == arg[c] # <<>> /\ pre[c] = <<>> /\ pc[c] = "idle"

\* C11 as stated: reading the last block of a chain of zero blocks fails
\* with the dedicated error EmptyChainError.
C11_EmptyChainError ==
    \A c \in Callers : ReadEmptyTail(c) => err[c] = "EmptyChainError"

\* C11, amended: reading the last block of a chain of zero blocks fails with
\* the list's IndexError, add_block returns no block and appends nothing;
\* while the chain is what the constructor and add_block alone built it holds
\* a block, and no call fails.
C11_EmptyTailIndexError ==
    /\ \A c \in Callers : ReadEmptyTail(c) =>
          /\ err[c] = "IndexError"
          /\ ret[c] = <<>>
          /\ chain = <<>>
    /\ \A c \in Callers : err[c] \in {"none", "IndexError"}
    /\ n_ext = 0 => chain # <<>> /\ \A c \in Callers : err[c] = "none"

C11_Witness ==
    /\ ext.op = "delete"
    /\ chain = <<>>
    /\ \E c \in Callers : ReadEmptyTail(c) /\ err[c] = "IndexError" /\ seen[c] = <<>>

\* ------------------------------------------------- claims on compute_hash

\* The blocks in play: stored, stored before the last edit, being mined and
\* returned.
InPlay ==
    {chain[k] : k \in 1..Len(chain)} \cup {ext.before[k] : k \in 1..Len(ext.before)}
        \cup {cand[c][1] : c \in {o \in Callers : cand[o] # <<>>}}
        \cup {ret[c][1] : c \in {o \in Callers : ret[o] # <<>>}}

\* A block in play with any hash in play (or none) in its hash field.
HashVariants ==
    {[b EXCEPT !.hash = h] : b \in InPlay,
        h \in {x.hash : x \in InPlay} \cup {Sentinel, <<>>}}

\* C12: two blocks that agree on index, timestamp, data (as a mapping),
\* previous_hash and nonce have the same compute_hash(), whatever their hash
\* fields hold and in whatever order their payload's keys were inserted; and
\* the steps that call compute_hash() change nothing but what their caller
\* assigns: is_valid() leaves the chain as it is, a mining step changes the
\* candidate's nonce and hash only, the hash being that of the new fields.
C12_HashOfFiveFields ==
    /\ [](\A x, y \in {<<Fields(b), compute_hash(b)>> : b \in HashVariants} :
              x[1] = y[1] => x[2] = y[2])
    /\ [][/\ verdict' # verdict /\ verdict' # <<>> => chain' = chain
          /\ \A c \in Callers :
                (pc[c] = "mine" /\ cand'[c] # cand[c] /\ cand'[c] # <<>>) =>
                    /\ [cand'[c][1] EXCEPT !.nonce = 0, !.hash = <<>>]
                         = [cand[c][1] EXCEPT !.nonce = 0, !.hash = <<>>]
                    /\ cand'[c][1].hash = compute_hash(cand'[c][1])
                    /\ chain' = chain]_vars

C12_Witness ==
    /\ ext.op = "data"
    /\ ext.i = 2
    /\ ext.before[2].data = PayloadAB
    /\ chain[2].data = PayloadABReordered
    /\ chain[2].nonce > 0
    /\ chain[2].hash = compute_hash(chain[2])
    /\ verdict = <<TRUE>>

\* ------------------------------------------------ claims on proof_of_work

\* Block b is sealed by the least nonce: its hash is the hash of its fields
\* and fits difficulty d, and the hash under no smaller nonce does.
LeastNonce(b, d) ==
    /\ b.hash = compute_hash(b)
    /\ PowDone(b, d)
    /\ \A m \in 0..(b.nonce - 1) : ~PowDone(WithNonce(b, m), d)

\* C13: on a block constructed with nonce 0 and its own hash, proof_of_work
\* tries the nonces 0, 1, 2, ... one by one: each pass of the loop adds 1 to
\* the nonce and stores the hash of the new fields; when the loop ends the
\* nonce is the least one whose hash fits, the stored hash is that hash,
\* and the exit itself changes nothing of the block; a block whose nonce-0
\* hash fits keeps nonce 0.
C13_LeastNonceFound ==
    /\ [](\A c \in Callers :
            /\ pc[c] = "append" =>
                  /\ LeastNonce(cand[c][1], difficulty)
                  /\ PowDone(WithNonce(cand[c][1], 0), difficulty) => cand[c][1].nonce = 0
            /\ ret[c] # <<>> =>
                  /\ LeastNonce(ret[c][1], difficulty)
                  /\ ret[c][1] = proof_of_work(WithNonce(ret[c][1], 0), difficulty))
    /\ [][\A c \in Callers :
            /\ (pc[c] = "tail" /\ pc'[c] = "mine") =>
                  cand'[c][1].nonce = 0 /\ cand'[c][1].hash = compute_hash(cand'[c][1])
            /\ (pc[c] = "mine" /\ pc'[c] = "mine" /\ cand'[c] # cand[c]) =>
                  /\ ~PowDone(cand[c][1], difficulty)
                  /\ cand'[c][1].nonce = cand[c][1].nonce + 1
                  /\ cand'[c][1] = WithNonce(cand[c][1], cand[c][1].nonce + 1)
            /\ (pc[c] = "mine" /\ pc'[c] = "append") =>
                  PowDone(cand[c][1], difficulty) /\ cand'[c] = cand[c]]_vars

C13_Witness ==
    \E c \in Callers :
        /\ ret[c] # <<>>
        /\ difficulty = 1
        /\ ret[c][1].nonce >= 2
        /\ LeastNonce(ret[c][1], difficulty)
        /\ ~PowDone(WithNonce(ret[c][1], 1), difficulty)

\* Some nonce from b's own on, as far as the loop is followed, gives b a hash
\* that fits difficulty d.
Fits(b, d) == \E n \in b.nonce..MaxNonce : PowDone(WithNonce(b, n), d)

\* C14: proof_of_work's loop ends exactly when some nonce from the block's
\* own on gives a hash with `difficulty` leading zeros, and add_block then
\* appends and returns the block; when none does, as with a difficulty above
\* the hash length, the call stays in the loop for ever, raises nothing and
\* the chain is never extended; with difficulty 0 the loop body never runs.
C14_MiningTermination ==
    /\ \A c \in Callers :
          (pc[c] = "mine" /\ Fits(cand[c][1], difficulty))
            ~> (/\ pc[c] = "idle" /\ ret[c] # <<>> /\ err[c] = "none"
                /\ Len(chain) = Len(pre[c]) + 1
                /\ last_block(chain) = ret[c][1])
    /\ [](\A c \in Callers :
            /\ pc[c] = "append" => PowDone(cand[c][1], difficulty)
            /\ difficulty > HashLen => pc[c] # "append" /\ ret[c] = <<>>
            /\ (difficulty = 0 /\ cand[c] # <<>>) => cand[c][1].nonce = 0)
    /\ [][\A c \in Callers :
            (pc[c] = "mine" /\ ~Fits(cand[c][1], difficulty)) =>
                /\ pc'[c] = "mine"
                /\ ~Fits(cand'[c][1], difficulty)
                /\ err'[c] = "none"
                /\ ret'[c] = <<>>
                /\ chain' = chain]_vars

C14_Witness ==
    \E c \in Callers :
        /\ difficulty > HashLen
        /\ pc[c] = "mine"
        /\ cand[c][1].nonce = MaxNonce
        /\ ~Fits(cand[c][1], difficulty)
        /\ err[c] = "none"
        /\ chain = pre[c]

\* ------------------------------------------------------ claims on indices

\* C15: in every chain the constructor and sequential add_block calls build,
\* the block at position i carries index i (positions counted from 0, so
\* the sequence's k-th block carries k - 1).
C15_IndexIsPosition ==
    \A k \in 1..Len(chain) : chain[k].index = k - 1

C15_Witness ==
    /\ Len(chain) = 3
    /\ chain[1].index = 0 /\ chain[2].index = 1 /\ chain[3].index = 2
    /\ \E c \in Callers : ret[c] # <<>> /\ ret[c][1] = chain[2]
    /\ \E c \in Callers : ret[c] # <<>> /\ ret[c][1] = chain[3]

\* --------------------------------------------- claims on the genesis block

\* The last edit wrote to the first block (its payload or one field).
GenesisEdited == ext.op \in {"data", "field"} /\ ext.i = 1

\* The chain before the last edit was valid: each of its blocks after the
\* first passed the three checks.
SoundBefore == \A i \in 2..Len(ext.before) : ChecksPass(ext.before, difficulty, i)

\* C16: is_valid() checks neither the first block's hash against its fields
\* nor its prefix: after an edit of the first block of a valid chain that
\* leaves its stored hash as it was (data, timestamp, index, nonce or
\* previous_hash changed) is_valid() returns True, also when that hash lacks
\* the `difficulty` zeros; the stored hash alone counts, through the link
\* check of the next block: a different hash written to the first block
\* makes is_valid() False exactly when a second block exists.
C16_GenesisUnchecked ==
    (GenesisEdited /\ SoundBefore) =>
        /\ chain[1].hash = ext.before[1].hash =>
              is_valid(chain, difficulty) /\ VerdictIs(TRUE)
        /\ chain[1].hash # ext.before[1].hash =>
              /\ is_valid(chain, difficulty) = (Len(chain) = 1)
              /\ VerdictIs(Len(chain) = 1)

C16_Witness ==
    /\ GenesisEdited
    /\ SoundBefore
    /\ Len(chain) = 3
    /\ difficulty >= 1
    /\ chain[1].hash = ext.before[1].hash
    /\ chain[1].data # ext.before[1].data
    /\ ~HashMatches(chain[1])
    /\ ~StartsWith(chain[1].hash, Prefix(difficulty))
    /\ verdict = <<TRUE>>

\* ------------------------------------------------- claims on is_valid's frame

\* C17: is_valid() only reads: a call, on a valid chain or not, changes
\* neither the chain (its length, its order, any field of any block) nor
\* anything else of the program; the chain changes only by an append or an
\* edit; and while the chain is not changed a further call returns what
\* the call before returned, which stays the verdict of the chain as it is.
C17_IsValidReadOnly ==
    /\ [](verdict # <<>> => verdict[1] = is_valid(chain, difficulty))
    /\ [][/\ (verdict' # <<>> /\ verdict' # verdict) =>
                /\ chain' = chain
                /\ UNCHANGED <<fixed, pc, arg, n_read, cand, ret, pre, seen, err, ext, n_ext>>
          /\ chain' # chain =>
                \/ n_ext' # n_ext
                \/ \E c \in Callers : pc[c] = "append" /\ pc'[c] = "idle"
          /\ (verdict # <<>> /\ verdict' # <<>>) => verdict' = verdict]_vars

C17_Witness ==
    /\ ext.op \in {"data", "field"}
    /\ ext.i = 2
    /\ Len(chain) = 3
    /\ verdict = <<FALSE>>
    /\ [chain EXCEPT ![2] = ext.before[2]] = ext.before
    /\ chain[2].hash = ext.before[2].hash
    /\ ~HashMatches(chain[2])

\* ------------------------------------------------------ claims on re-sealing

\* C18: on a valid chain, after the payload of a non-genesis block is
\* changed and that block alone is sealed anew (its hash is the hash of its
\* fields and has the prefix), is_valid() returns False when the block is
\* not the last, the next block's previous_hash being the old hash (the new
\* fields taken not to hash to the old hash), and True when it is the last.
C18_ResealDetectedInside ==
    LET p == ext.i
        B == ext.before
    IN  (ext.op = "reseal" /\ p >= 2 /\ SoundBefore) =>
          /\ HashMatches(chain[p]) /\ StartsWith(chain[p].hash, Prefix(difficulty))
          /\ [chain EXCEPT ![p] = B[p]] = B
          /\ (/\ p < Len(chain)
               /\ Items(chain[p].data) # Items(B[p].data)
               /\ NoCollision(chain[p], B[p])) =>
                  /\ chain[p + 1].previous_hash # chain[p].hash
                  /\ ~is_valid(chain, difficulty)
                  /\ VerdictIs(FALSE)
          /\ p = Len(chain) => is_valid(chain, difficulty) /\ VerdictIs(TRUE)

C18_Witness ==
    /\ ext.op = "reseal"
    /\ ext.i = 2
    /\ Len(chain) = 3
    /\ difficulty >= 1
    /\ SoundBefore
    /\ Items(chain[2].data) # Items(ext.before[2].data)
    /\ NoCollision(chain[2], ext.before[2])
    /\ chain[2].nonce > 0
    /\ ChecksPass(chain, difficulty, 2)
    /\ verdict = <<FALSE>>

\* ------------------------------------------------- claims on raced chains

\* No two blocks of the chain ch with different fields have the same hash.
CollisionFree(ch) ==
    \A x, y \in {<<compute_hash(ch[k]), Fields(ch[k])>> : k \in 1..Len(ch)} :
        x[1] = y[1] => x[2] = y[2]

\* Two blocks of ch were built on the same last block: the later one, at
\* position j, carries the previous_hash of an earlier one.
BuiltOnSameTail(ch, j) == \E i \in 1..(j - 1) : ch[i].previous_hash = ch[j].previous_hash

\* Some block of ch was built on the last block another block was built on.
Raced(ch) == \E j \in 1..Len(ch) : BuiltOnSameTail(ch, j)

\* The first such block of ch.
FirstRaced(ch) ==
    CHOOSE j \in 1..Len(ch) :
        BuiltOnSameTail(ch, j) /\ \A k \in 1..(j - 1) : ~BuiltOnSameTail(ch, k)

\* C19: when two add_block calls that read the same last block have both
\* appended, the chain holds two blocks with the same previous_hash, and
\* is_valid() rejects it, then and after any further add_block: the block
\* appended second links to a hash that is not the hash of the block before
\* it (no two blocks of the chain with different fields taken to share a
\* hash).
C19_RacedChainRejected ==
    /\ BothReadBeforeAppend => BuiltOnSameTail(chain, Len(chain))
    /\ (Raced(chain) /\ CollisionFree(chain)) =>
            /\ chain[FirstRaced(chain)].previous_hash # chain[FirstRaced(chain) - 1].hash
            /\ ~is_valid(chain, difficulty)
            /\ VerdictIs(FALSE)

C19_Witness ==
    /\ ~mutex
    /\ Len(chain) = 4
    /\ Raced(chain)
    /\ FirstRaced(chain) = 3
    /\ CollisionFree(chain)
    /\ chain[2] # chain[3]
    /\ chain[3].previous_hash = chain[1].hash
    /\ HashMatches(chain[3]) /\ StartsWith(chain[3].hash, Prefix(difficulty))
    /\ ChecksPass(chain, difficulty, 4)
    /\ verdict = <<FALSE>>

====
